---- MODULE Spec2Model ----
(***************************************************************************)
(* Model of the Balancer of src/src/lib.rs: a group of `size` ranks, each  *)
(* owning one Balancer, running the same program of Balancer calls over    *)
(* an MPI-like transport (point-to-point FIFO channels and a barrier).     *)
(***************************************************************************)
EXTENDS Integers, Sequences, FiniteSets, TLC

\* ------------------------------------------------------------------ bounds
MaxSize == 3
MaxN == 5

AllRanks == 0 .. (MaxSize - 1)

\* ------------------------------------------------------- values and helpers
\* Option<T>
None == [some |-> FALSE, val |-> <<>>]
Some(x) == [some |-> TRUE, val |-> x]

\* the dataset of n items built by the callers (distinct items, so that every
\* position of the dataset is recognisable in a result)
Data(n) == [i \in 1 .. n |-> 2 * i + 1]

\* the task closures handed to work / work_subset
Funcs == {"id", "sq"}
Apply(fn, x) == IF fn = "sq" THEN x * x ELSE x

\* (a variant that puts the results in the reverse of the items' order)
ParMapRev(fn, s) == [i \in 1 .. Len(s) |-> Apply(fn, s[Len(s) + 1 - i])]
\* items.into_par_iter().map(|i| work(i)).collect(): an indexed parallel map,
\* position i of the result is work(items[i])
ParMap(fn, s) == [i \in 1 .. Len(s) |-> Apply(fn, s[i])]

Min(a, b) == IF a <= b THEN a ELSE b

\* the first k elements of s, and what remains of s once they are drained
Take(s, k) == SubSeq(s, 1, k)
Drop(s, k) == SubSeq(s, k + 1, Len(s))

\* (a variant that rounds down)
div_floor(a, b) == a \div b
\* fn div_ceil(a, b) = (a + b - 1) / b
div_ceil(a, b) == (a + b - 1) \div b

\* the bounds (l, r) that get_subset and work_subset compute for a rank
subset_l(n, sz, rk) == rk * div_ceil(n, sz)
subset_r(n, sz, rk) == Min((rk + 1) * div_ceil(n, sz), n)

\* &items[l..r]: the slice, or a panic when l > r or r > len
slice(s, l, r) ==
    IF l <= r /\ r <= Len(s)
    THEN [ok |-> TRUE, val |-> SubSeq(s, l + 1, r)]
    ELSE [ok |-> FALSE, val |-> <<>>]

get_subset(s, sz, rk) == slice(s, subset_l(Len(s), sz, rk), subset_r(Len(s), sz, rk))

\* (a variant of the range that stops one rank early)
in_range_short(rk, sz) == rk < sz - 1
\* `for rank in 1..self.size`: whether the loop has another turn at rank rk
in_range(rk, sz) == rk < sz

\* (a variant that puts the received output in front)
prepend(output, rank_output) == rank_output \o output
\* output.append(&mut rank_output)
append(output, rank_output) == output \o rank_output

\* (a variant without the early return)
never_none(w) == FALSE
\* the `?` of `self.work.replace(None)?`: collect returns None at once on an
\* empty slot
is_none(w) == ~w.some

\* (a variant that reads the slot without clearing it)
replace_keep(w) == w
\* self.work.replace(None): what the slot holds afterwards
replace_None(w) == None

\* (a variant that adds the new output to a pending one)
set_extend(w, out) == IF w.some THEN Some(w.val \o out) ELSE Some(out)
\* self.work.set(Some(LocalWork { output })): what the slot holds afterwards
set_work(w, out) == Some(out)

\* (a variant that leaves the receiver's value as it was)
broadcast_keep(root_value, own) == own
\* process_at_rank(0).broadcast_into(value): what a rank's value is afterwards
broadcast_into(root_value, own) == root_value

\* the programs the ranks run (every rank runs the same sequence of calls)
Programs ==
    { <<"distribute", "work", "collect">>,
      <<"distribute", "work", "collect", "work", "collect">>,
      <<"work_subset", "collect", "collect">>,
      <<"work", "collect", "collect">>,
      <<"collect", "work", "collect">>,
      <<"get_subset", "work", "collect">>,
      <<"work", "work_subset", "collect">>,
      <<"synchronize_value", "work_mul", "collect",
        "synchronize_value", "work_mul", "collect">>,
      <<"maybe_work", "collect", "maybe_work", "collect">>,
      <<"maybe_work", "collect">>,
      <<"work_local", "collect">> }

\* events of a rank's transport log
Ev(k, peer, msg) == [k |-> k, peer |-> peer, msg |-> msg]
\* the record of a finished call
Ret(op, val) == [op |-> op, val |-> val]

\* ------------------------------------------------------------------- state
VARIABLES
    size,        \* Balancer.size, the same on every rank
    data,        \* the dataset of the run
    f,           \* the task closure of the run
    eager,       \* whether the transport buffers a standard-mode send
    prog,        \* the sequence of calls every rank makes
    pc,          \* pc[r]: where rank r is inside its current call
    ip,          \* ip[r]: index in prog of rank r's current / next call
    work,        \* work[r]: Balancer.work, the pending LocalWork slot
    chan,        \* chan[<<s, d>>]: messages sent by s to d, not yet received
    items,       \* root, distribute: the local `items` being drained
    chunk_size,  \* root, distribute: the local `chunk_size`
    rank,        \* root: the local `rank` counter of distribute / collect
    ours,        \* ours[r]: the local `ours` of distribute
    output,      \* output[r]: the local `output` of collect
    chunk,       \* chunk[r]: the caller's variable holding its share
    arg,         \* arg[r]: the `items` argument of r's latest distribute
    taken,       \* taken[r]: the output r's latest collect took from the slot
    value,       \* value[r]: the caller's scalar `multiple`
    bcast,       \* bcast[r]: values broadcast by root, not yet taken by r
    rets,        \* rets[r]: the finished calls of r, in order
    log          \* log[r]: the transport events of r, in order

vars == << size, data, f, eager, prog, pc, ip, work, chan, items, chunk_size,
           rank, ours, output, chunk, arg, taken, value, bcast, rets, log >>

params == << size, data, f, eager, prog >>

Ranks == 0 .. (size - 1)

Init ==
    /\ size \in 1 .. MaxSize
    /\ data \in { Data(n) : n \in 0 .. MaxN }
    /\ f \in Funcs
    /\ eager \in BOOLEAN
    /\ prog \in Programs
    /\ pc = [r \in AllRanks |-> "idle"]
    /\ ip = [r \in AllRanks |-> 1]
    /\ work = [r \in AllRanks |-> None]
    /\ chan = [p \in AllRanks \X AllRanks |-> <<>>]
    /\ items = <<>>
    /\ chunk_size = 0
    /\ rank = 0
    /\ ours = [r \in AllRanks |-> <<>>]
    /\ output = [r \in AllRanks |-> <<>>]
    /\ chunk = [r \in AllRanks |-> None]
    /\ arg = [r \in AllRanks |-> None]
    /\ taken = [r \in AllRanks |-> <<>>]
    /\ value = [r \in AllRanks |-> 0]
    /\ bcast = [r \in AllRanks |-> <<>>]
    /\ rets = [r \in AllRanks |-> <<>>]
    /\ log = [r \in AllRanks |-> <<>>]

\* rank r is between two calls and its next call is op
AtCall(r, op) ==
    /\ r \in Ranks
    /\ pc[r] = "idle"
    /\ ip[r] <= Len(prog)
    /\ prog[ip[r]] = op

\* a call of r that returns without blocking
Return(r, op, val) ==
    /\ pc' = [pc EXCEPT ![r] = "idle"]
    /\ ip' = [ip EXCEPT ![r] = @ + 1]
    /\ rets' = [rets EXCEPT ![r] = Append(@, Ret(op, val))]

Panic(r) ==
    /\ pc' = [pc EXCEPT ![r] = "panic"]
    /\ UNCHANGED << ip, rets >>

\* what the caller passes to work: its share from distribute / get_subset when
\* it has one, the dataset otherwise
WorkInput(r) == IF chunk[r].some THEN chunk[r].val ELSE data

\* ------------------------------------------------------------- distribute
\* distribute(items), up to the first blocking call
DistributeCall(r) ==
    /\ AtCall(r, "distribute")
    /\ \E a \in {None, Some(data)} :
        /\ arg' = [arg EXCEPT ![r] = a]
        /\ IF r = 0 /\ size > 1
           THEN IF ~a.some \/ div_ceil(Len(a.val), size) > Len(a.val)
                THEN \* items.unwrap() on None, or drain(..chunk_size) out of range
                     /\ Panic(r)
                     /\ UNCHANGED << items, chunk_size, rank, ours >>
                ELSE /\ chunk_size' = div_ceil(Len(a.val), size)
                     /\ rank' = 1
                     /\ ours' = [ours EXCEPT ![r] = Take(a.val, chunk_size')]
                     /\ items' = Drop(a.val, chunk_size')
                     /\ pc' = [pc EXCEPT ![r] = "dist_send"]
                     /\ UNCHANGED << ip, rets >>
           ELSE \* the else branch drops items and receives from rank 0
                /\ pc' = [pc EXCEPT ![r] = "dist_recv"]
                /\ UNCHANGED << ip, rets, items, chunk_size, rank, ours >>
    /\ UNCHANGED << params, value, bcast, work, chan, output, chunk, taken, log >>

\* root: one turn of `while !items.is_empty()`, or the barrier after the loop
DistributeSend ==
    /\ 0 \in Ranks
    /\ pc[0] = "dist_send"
    /\ IF items # <<>>
       THEN LET theirs == Take(items, Min(chunk_size, Len(items))) IN
            /\ items' = Drop(items, Min(chunk_size, Len(items)))
            /\ IF rank \in Ranks
               THEN /\ chan' = [chan EXCEPT ![<<0, rank>>] = Append(@, theirs)]
                    /\ log' = [log EXCEPT ![0] = Append(@, Ev("send", rank, theirs))]
                    /\ pc' = [pc EXCEPT ![0] = "dist_send_wait"]
               ELSE \* process_at_rank(rank) with no such rank
                    /\ pc' = [pc EXCEPT ![0] = "panic"]
                    /\ UNCHANGED << chan, log >>
       ELSE /\ pc' = [pc EXCEPT ![0] = "dist_barrier"]
            /\ log' = [log EXCEPT ![0] = Append(@, Ev("barrier", 0, <<>>))]
            /\ UNCHANGED << items, chan >>
    /\ UNCHANGED << params, value, bcast, ip, work, chunk_size, rank, ours, output, chunk,
                    arg, taken, rets >>

\* root: send(&theirs) returns (at once when the transport buffers it, else
\* when the destination has received it), then `rank += 1`
DistributeSendDone ==
    /\ 0 \in Ranks
    /\ pc[0] = "dist_send_wait"
    /\ eager \/ chan[<<0, rank>>] = <<>>
    /\ rank' = rank + 1
    /\ pc' = [pc EXCEPT ![0] = "dist_send"]
    /\ UNCHANGED << params, value, bcast, ip, work, chan, items, chunk_size, ours, output,
                    chunk, arg, taken, rets, log >>

\* process_at_rank(0).receive_vec() of the else branch, then the barrier
DistributeRecv(r) ==
    /\ r \in Ranks
    /\ pc[r] = "dist_recv"
    /\ chan[<<0, r>>] # <<>>
    /\ ours' = [ours EXCEPT ![r] = Head(chan[<<0, r>>])]
    /\ chan' = [chan EXCEPT ![<<0, r>>] = Tail(@)]
    /\ log' = [log EXCEPT ![r] = @ \o << Ev("recv", 0, Head(chan[<<0, r>>])),
                                         Ev("barrier", r, <<>>) >>]
    /\ pc' = [pc EXCEPT ![r] = "dist_barrier"]
    /\ UNCHANGED << params, value, bcast, ip, work, items, chunk_size, rank, output, chunk,
                    arg, taken, rets >>

\* ------------------------------------------------------------ local work
\* get_subset(items) on the whole dataset; the caller keeps the slice
GetSubset(r) ==
    /\ AtCall(r, "get_subset")
    /\ LET got == get_subset(data, size, r) IN
       IF got.ok
       THEN /\ chunk' = [chunk EXCEPT ![r] = Some(got.val)]
            /\ Return(r, "get_subset", Some(got.val))
       ELSE /\ Panic(r)
            /\ UNCHANGED chunk
    /\ UNCHANGED << params, value, bcast, work, chan, items, chunk_size, rank, ours, output,
                    arg, taken, log >>

\* work_subset(items, work) on the whole dataset
WorkSubset(r) ==
    /\ AtCall(r, "work_subset")
    /\ LET our_items == slice(data, subset_l(Len(data), size, r),
                                    subset_r(Len(data), size, r)) IN
       IF our_items.ok
       THEN /\ work' = [work EXCEPT ![r] = set_work(@, ParMap(f, our_items.val))]
            /\ Return(r, "work_subset", None)
       ELSE /\ Panic(r)
            /\ UNCHANGED work
    /\ UNCHANGED << params, value, bcast, chan, items, chunk_size, rank, ours, output, chunk,
                    arg, taken, log >>

\* work_local(items, work): partitions as work_subset does and stores the
\* mapped chunk
WorkLocal(r) ==
    /\ AtCall(r, "work_local")
    /\ LET our_items == slice(data, subset_l(Len(data), size, r),
                                    subset_r(Len(data), size, r)) IN
       IF our_items.ok
       THEN /\ work' = [work EXCEPT ![r] = set_work(@, ParMap(f, our_items.val))]
            /\ Return(r, "work_local", None)
       ELSE /\ Panic(r)
            /\ UNCHANGED work
    /\ UNCHANGED << params, value, bcast, chan, items, chunk_size, rank, ours,
                    output, chunk, arg, taken, log >>

\* work(items, work) on the caller's share
Work(r) ==
    /\ AtCall(r, "work")
    /\ work' = [work EXCEPT ![r] = set_work(@, ParMap(f, WorkInput(r)))]
    /\ Return(r, "work", None)
    /\ UNCHANGED << params, value, bcast, chan, items, chunk_size, rank, ours, output, chunk,
                    arg, taken, log >>

\* a rank-dependent branch of the caller: the rank calls work(items, work) on
\* its share, or skips the call
MaybeWork(r) ==
    /\ AtCall(r, "maybe_work")
    /\ \/ work' = [work EXCEPT ![r] = set_work(@, ParMap(f, WorkInput(r)))]
       \/ UNCHANGED work
    /\ Return(r, "maybe_work", None)
    /\ UNCHANGED << params, value, bcast, chan, items, chunk_size, rank, ours,
                    output, chunk, arg, taken, log >>

\* ---------------------------------------------------------------- collect
\* collect(), up to the first blocking call
CollectCall(r) ==
    /\ AtCall(r, "collect")
    /\ work' = [work EXCEPT ![r] = replace_None(@)]
    /\ IF is_none(work[r])
       THEN \* the `?` on an empty slot
            /\ Return(r, "collect", None)
            /\ UNCHANGED << chan, rank, output, taken, log >>
       ELSE /\ output' = [output EXCEPT ![r] = work[r].val]
            /\ taken' = [taken EXCEPT ![r] = work[r].val]
            /\ UNCHANGED << ip, rets >>
            /\ IF r = 0
               THEN /\ rank' = 1
                    /\ pc' = [pc EXCEPT ![r] = "coll_recv"]
                    /\ UNCHANGED << chan, log >>
               ELSE /\ chan' = [chan EXCEPT ![<<r, 0>>] = Append(@, work[r].val)]
                    /\ log' = [log EXCEPT ![r] = Append(@, Ev("send", 0, work[r].val))]
                    /\ pc' = [pc EXCEPT ![r] = "coll_send_wait"]
                    /\ UNCHANGED rank
    /\ UNCHANGED << params, value, bcast, items, chunk_size, ours, chunk, arg >>

\* root: one turn of `for rank in 1..self.size`, or the barrier after the loop
CollectRecv ==
    /\ 0 \in Ranks
    /\ pc[0] = "coll_recv"
    /\ IF in_range(rank, size)
       THEN /\ chan[<<rank, 0>>] # <<>>
            /\ output' = [output EXCEPT ![0] = append(@, Head(chan[<<rank, 0>>]))]
            /\ chan' = [chan EXCEPT ![<<rank, 0>>] = Tail(@)]
            /\ log' = [log EXCEPT ![0] = Append(@, Ev("recv", rank, Head(chan[<<rank, 0>>])))]
            /\ rank' = rank + 1
            /\ UNCHANGED pc
       ELSE /\ pc' = [pc EXCEPT ![0] = "coll_barrier"]
            /\ log' = [log EXCEPT ![0] = Append(@, Ev("barrier", 0, <<>>))]
            /\ UNCHANGED << output, chan, rank >>
    /\ UNCHANGED << params, value, bcast, ip, work, items, chunk_size, ours, chunk, arg,
                    taken, rets >>

\* a follower: send(&output) returns, then the barrier
CollectSendDone(r) ==
    /\ r \in Ranks
    /\ pc[r] = "coll_send_wait"
    /\ eager \/ chan[<<r, 0>>] = <<>>
    /\ pc' = [pc EXCEPT ![r] = "coll_barrier"]
    /\ log' = [log EXCEPT ![r] = Append(@, Ev("barrier", r, <<>>))]
    /\ UNCHANGED << params, value, bcast, ip, work, chan, items, chunk_size, rank, ours,
                    output, chunk, arg, taken, rets >>

\* ------------------------------------------------------ synchronize_value
\* the number of synchronize_value calls among the first i calls of the program
SyncCount(i) == Cardinality({ j \in 1 .. i : prog[j] = "synchronize_value" })

\* the caller sets `multiple` (the iteration number on root, 0 elsewhere) and
\* calls synchronize_value(&mut multiple): root hands its value to the
\* broadcast, the others wait for it
SynchronizeCall(r) ==
    /\ AtCall(r, "synchronize_value")
    /\ IF r = 0
       THEN /\ value' = [value EXCEPT ![r] = SyncCount(ip[r])]
            /\ bcast' = [k \in AllRanks |->
                           IF k \in Ranks \ {0}
                           THEN Append(bcast[k], SyncCount(ip[r])) ELSE bcast[k]]
            /\ pc' = [pc EXCEPT ![r] = "sync_wait"]
       ELSE /\ value' = [value EXCEPT ![r] = 0]
            /\ pc' = [pc EXCEPT ![r] = "sync_recv"]
            /\ UNCHANGED bcast
    /\ UNCHANGED << params, ip, work, chan, items, chunk_size, rank, ours,
                    output, chunk, arg, taken, rets, log >>

\* root: the broadcast returns (at once when the transport buffers it, else
\* when every other rank has taken the value)
SynchronizeDone ==
    /\ 0 \in Ranks
    /\ pc[0] = "sync_wait"
    /\ eager \/ \A k \in Ranks : bcast[k] = <<>>
    /\ value' = [value EXCEPT ![0] = broadcast_into(@, @)]
    /\ Return(0, "synchronize_value", None)
    /\ UNCHANGED << params, bcast, work, chan, items, chunk_size, rank, ours,
                    output, chunk, arg, taken, log >>

\* a non-root rank: the broadcast delivers root's value into `value`
SynchronizeRecv(r) ==
    /\ r \in Ranks
    /\ pc[r] = "sync_recv"
    /\ bcast[r] # <<>>
    /\ value' = [value EXCEPT ![r] = broadcast_into(Head(bcast[r]), @)]
    /\ bcast' = [bcast EXCEPT ![r] = Tail(@)]
    /\ Return(r, "synchronize_value", None)
    /\ UNCHANGED << params, work, chan, items, chunk_size, rank, ours, output,
                    chunk, arg, taken, log >>

\* work(&data, |x| multiple * x): the task of the synchronize example
WorkMul(r) ==
    /\ AtCall(r, "work_mul")
    /\ work' = [work EXCEPT ![r] =
                  set_work(@, [i \in 1 .. Len(WorkInput(r)) |-> value[r] * WorkInput(r)[i]])]
    /\ Return(r, "work_mul", None)
    /\ UNCHANGED << params, value, bcast, chan, items, chunk_size, rank, ours,
                    output, chunk, arg, taken, log >>

\* ---------------------------------------------------------------- barrier
InBarrier(r) == r \in Ranks /\ pc[r] \in {"dist_barrier", "coll_barrier"}

\* (a variant that lets a rank through as soon as it arrives)
BarrierAny == \E r \in Ranks : InBarrier(r)
\* world.barrier() completes once every rank of the group has entered it
BarrierReady == \A r \in Ranks : InBarrier(r)

\* the value a rank returns after the barrier of distribute / collect
AfterBarrier(r) ==
    IF pc[r] = "dist_barrier" THEN Ret("distribute", Some(ours[r]))
    ELSE IF r = 0 THEN Ret("collect", Some(output[r]))
    ELSE Ret("collect", None)

\* the barrier completes and every rank in it returns from its call
Barrier ==
    /\ BarrierReady
    /\ \E r \in Ranks : InBarrier(r)
    /\ pc' = [r \in AllRanks |-> IF InBarrier(r) THEN "idle" ELSE pc[r]]
    /\ ip' = [r \in AllRanks |-> IF InBarrier(r) THEN ip[r] + 1 ELSE ip[r]]
    /\ rets' = [r \in AllRanks |->
                  IF InBarrier(r) THEN Append(rets[r], AfterBarrier(r)) ELSE rets[r]]
    /\ chunk' = [r \in AllRanks |->
                  IF InBarrier(r) /\ pc[r] = "dist_barrier"
                  THEN Some(ours[r]) ELSE chunk[r]]
    /\ UNCHANGED << params, value, bcast, work, chan, items, chunk_size, rank, ours, output,
                    arg, taken, log >>

\* ---------------------------------------------------------- specification
Next ==
    \/ \E r \in AllRanks : DistributeCall(r)
    \/ DistributeSend
    \/ DistributeSendDone
    \/ \E r \in AllRanks : DistributeRecv(r)
    \/ \E r \in AllRanks : GetSubset(r)
    \/ \E r \in AllRanks : WorkSubset(r)
    \/ \E r \in AllRanks : WorkLocal(r)
    \/ \E r \in AllRanks : Work(r)
    \/ \E r \in AllRanks : MaybeWork(r)
    \/ \E r \in AllRanks : CollectCall(r)
    \/ CollectRecv
    \/ \E r \in AllRanks : CollectSendDone(r)
    \/ \E r \in AllRanks : SynchronizeCall(r)
    \/ SynchronizeDone
    \/ \E r \in AllRanks : SynchronizeRecv(r)
    \/ \E r \in AllRanks : WorkMul(r)
    \/ Barrier

Spec == Init /\ [][Next]_vars

TypeOK ==
    /\ size \in 1 .. MaxSize
    /\ \A r \in AllRanks : ip[r] \in 1 .. (Len(prog) + 1)
    /\ \A r \in AllRanks : Len(rets[r]) = ip[r] - 1

\* ------------------------------------------------------ claim vocabulary
\* rank r has entered its i-th call / has returned from it
Called(r, i) == ip[r] > i \/ (ip[r] = i /\ pc[r] # "idle")
Returned(r, i) == Len(rets[r]) >= i

\* distribute was called with Some on root and None on every follower
ArgsValid == arg[0].some /\ \A r \in Ranks \ {0} : ~arg[r].some

\* ceil(n / d), from its definition: the least c with c * d >= n
Ceil(n, d) == CHOOSE c \in 0 .. n : c * d >= n /\ \A b \in 0 .. (c - 1) : b * d < n

\* items[k*chunk_size .. min((k+1)*chunk_size, n)] of the dataset
ChunkLo(k) == k * Ceil(Len(data), size)
ChunkHi(k) == Min((k + 1) * Ceil(Len(data), size), Len(data))
ExpectedChunk(k) ==
    [i \in 1 .. (IF ChunkHi(k) > ChunkLo(k) THEN ChunkHi(k) - ChunkLo(k) ELSE 0)
        |-> data[ChunkLo(k) + i]]

Sends(l) == SelectSeq(l, LAMBDA e : e.k = "send")
Recvs(l) == SelectSeq(l, LAMBDA e : e.k = "recv")

\* the number of distribute calls rank k has entered
DistributeCalls(k) == Cardinality({ i \in 1 .. ip[k] : prog[i] = "distribute" })

\* the indices of the half-open range [l, r) the code computes for rank k
PartRange(k) ==
    { i \in 0 .. (Len(data) - 1) :
        subset_l(Len(data), size, k) <= i /\ i < subset_r(Len(data), size, k) }

\* the outputs the ranks k, k+1, ..., size-1 took in their latest collect
RECURSIVE ConcatTaken(_)
ConcatTaken(k) == IF k >= size THEN <<>> ELSE taken[k] \o ConcatTaken(k + 1)

\* C1: round trip. With distribute(Some(data)) on root and distribute(None) on
\* every follower, then work(f) on the chunk and collect, for non-empty data
\* and any size >= 1, the run does not end before root's collect has returned
\* Some(f applied to each element of data, in order).
C1_RoundTrip ==
    ( /\ Len(prog) >= 3
      /\ SubSeq(prog, 1, 3) = <<"distribute", "work", "collect">>
      /\ Len(data) >= 1
      /\ \A r \in Ranks : Called(r, 1)
      /\ ArgsValid )
    => \/ Returned(0, 3) /\ rets[0][3] = Ret("collect", Some(ParMap(f, data)))
       \/ ~Returned(0, 3) /\ ENABLED Next

\* C2: termination of distribute. Once root has called distribute(Some(items))
\* and every other rank distribute(None), for any size >= 1 and n >= 0, every
\* rank returns from distribute with Some(chunk): as long as one has not, a
\* step is possible.
C2_DistributeReturns ==
    ( /\ prog[1] = "distribute"
      /\ \A r \in Ranks : Called(r, 1)
      /\ ArgsValid )
    => \/ \A r \in Ranks : Returned(r, 1) /\ rets[r][1].val.some
       \/ ENABLED Next

\* C3: single-rank distribute. In a group of size 1, distribute(Some(items))
\* on root posts no receive and no send, and what it returns is Some(items).
C3_SingleRankDistribute ==
    ( /\ size = 1
      /\ prog[1] = "distribute"
      /\ Called(0, 1)
      /\ arg[0].some )
    => /\ pc[0] # "dist_recv"
       /\ Sends(log[0]) = <<>>
       /\ Recvs(log[0]) = <<>>
       /\ Returned(0, 1) => rets[0][1] = Ret("distribute", Some(arg[0].val))

\* C4: chunk agreement. Whenever distribute returns on rank k its value is
\* items[k*chunk_size .. min((k+1)*chunk_size, n)] of root's input with
\* chunk_size = ceil(n/size), the slice get_subset computes for rank k; root
\* keeps chunk 0 and its j-th send goes to rank j and carries rank j's chunk.
C4_ChunkAgreement ==
    prog[1] = "distribute" =>
        /\ \A k \in Ranks :
              Returned(k, 1) =>
                 /\ rets[k][1] = Ret("distribute", Some(ExpectedChunk(k)))
                 /\ arg[0] = Some(data)
                 /\ get_subset(data, size, k) = [ok |-> TRUE, val |-> rets[k][1].val.val]
        /\ pc[0] \in {"dist_send", "dist_send_wait", "dist_barrier"}
              => ours[0] = ExpectedChunk(0)
        /\ \A j \in 1 .. Len(Sends(log[0])) :
              Sends(log[0])[j] = Ev("send", j, ExpectedChunk(j))

C4_Witness ==
    /\ prog[1] = "distribute"
    /\ size = 3
    /\ Len(data) = 5
    /\ \A k \in Ranks : Returned(k, 1)
    /\ rets[2][1].val.val = <<data[5]>>
    /\ Len(Sends(log[0])) = 2

\* C5: distribute barrier. When a rank returns from distribute, no chunk sent
\* by root is still undelivered and every follower has completed its receive.
C5_DistributeBarrier ==
    [][ (\E r \in Ranks : pc[r] = "dist_barrier" /\ pc'[r] = "idle")
        => /\ \A k \in Ranks : chan[<<0, k>>] = <<>>
           /\ \A k \in Ranks \ {0} :
                 /\ pc[k] = "dist_barrier"
                 /\ Len(Recvs(log[k])) = DistributeCalls(k)
           /\ Len(Sends(log[0])) = (size - 1) * DistributeCalls(0) ]_vars

C5_Witness ==
    /\ prog[1] = "distribute"
    /\ size = 3
    /\ \A r \in Ranks : ip[r] = 2 /\ pc[r] = "idle"
    /\ Len(rets[1][1].val.val) = 2

\* C6: partition. For n >= 0 and size >= 1 the index ranges [l, r) that
\* get_subset / work_subset compute for the ranks 0..size are pairwise
\* disjoint, their union is 0..n, each has at most ceil(n/size) indices, and a
\* slice get_subset returns holds the items of its range.
C6_Partition ==
    /\ \A j, k \in Ranks : j # k => PartRange(j) \cap PartRange(k) = {}
    /\ UNION { PartRange(k) : k \in Ranks } = 0 .. (Len(data) - 1)
    /\ \A k \in Ranks : Cardinality(PartRange(k)) <= Ceil(Len(data), size)
    /\ \A k \in Ranks :
          (prog[1] = "get_subset" /\ Returned(k, 1))
             => { chunk[k].val[i] : i \in 1 .. Len(chunk[k].val) }
                   = { data[i + 1] : i \in PartRange(k) }

C6_Witness ==
    /\ prog[1] = "get_subset"
    /\ size = 3
    /\ Len(data) = 5
    /\ \A k \in Ranks : Returned(k, 1)
    /\ chunk[2] = Some(<<data[5]>>)

\* C7: trailing ranks get an empty range. For n >= 0, size >= 1 and rank <
\* size the bounds of get_subset and work_subset satisfy l <= r <= n, and a
\* rank with rank * chunk_size >= n gets an empty slice (work_subset stores an
\* empty output) instead of failing.
C7_TrailingEmpty ==
    \A k \in Ranks :
        (prog[1] \in {"get_subset", "work_subset"} /\ (ip[k] > 1 \/ pc[k] # "idle"))
        => /\ subset_l(Len(data), size, k) <= subset_r(Len(data), size, k)
           /\ subset_r(Len(data), size, k) <= Len(data)
           /\ pc[k] # "panic"
           /\ (ChunkLo(k) >= Len(data) /\ ip[k] = 2 /\ pc[k] = "idle")
                 => IF prog[1] = "get_subset"
                    THEN chunk[k] = Some(<<>>)
                    ELSE work[k] = Some(<<>>)

\* C8: collect ordering. When every rank has a pending LocalWork and calls
\* collect, root receives once from each follower 1, 2, ..., size-1 in that
\* order and returns Some(out_0 ++ out_1 ++ ... ++ out_{size-1}); every
\* follower sends its whole output to root and returns None.
C8_CollectOrder ==
    [][ (pc[0] = "coll_barrier" /\ pc'[0] = "idle")
        => /\ rets'[0][Len(rets'[0])] = Ret("collect", Some(ConcatTaken(0)))
           /\ Len(log[0]) >= size
           /\ \A j \in 1 .. (size - 1) :
                 log[0][Len(log[0]) - size + j] = Ev("recv", j, taken[j])
           /\ \A r \in Ranks \ {0} :
                 /\ pc[r] = "coll_barrier"
                 /\ rets'[r][Len(rets'[r])] = Ret("collect", None)
                 /\ Len(log[r]) >= 2
                 /\ log[r][Len(log[r]) - 1] = Ev("send", 0, taken[r]) ]_vars

C8_Witness ==
    /\ prog[1] = "work_subset"
    /\ size = 3
    /\ Len(data) = 5
    /\ Returned(0, 2)
    /\ rets[0][2] = Ret("collect", Some(ParMap(f, data)))
    /\ rets[1][2] = Ret("collect", None)

\* C9: empty collect is a no-op. On any rank, collect called with no pending
\* LocalWork returns None without any send, receive or barrier, and leaves the
\* slot empty.
C9_EmptyCollect ==
    [][ \A r \in Ranks :
          ( /\ AtCall(r, "collect")
            /\ ~work[r].some
            /\ (pc'[r] # pc[r] \/ ip'[r] # ip[r]) )
          => /\ pc'[r] = "idle"
             /\ rets'[r] = Append(rets[r], Ret("collect", None))
             /\ log'[r] = log[r]
             /\ chan' = chan
             /\ work'[r] = None ]_vars

C9_Witness ==
    /\ prog[1] = "collect"
    /\ size = 3
    /\ \A r \in Ranks : rets[r] = << Ret("collect", None) >> /\ log[r] = <<>>

\* C10: take-and-clear. After a collect call returns, on root or on a
\* follower, the rank's LocalWork slot is empty; on root, two collect calls in
\* a row after a work* call return Some(...) and then None.
C10_TakeAndClear ==
    /\ \A r \in Ranks :
          (pc[r] = "idle" /\ ip[r] > 1 /\ prog[ip[r] - 1] = "collect")
             => work[r] = None
    /\ \A i \in 2 .. (Len(prog) - 1) :
          ( /\ prog[i - 1] \in {"work", "work_subset"}
            /\ prog[i] = "collect"
            /\ prog[i + 1] = "collect"
            /\ Returned(0, i + 1) )
          => rets[0][i].val.some /\ ~rets[0][i + 1].val.some

C10_Witness ==
    /\ prog = <<"work", "collect", "collect">>
    /\ size = 3
    /\ Len(data) = 2
    /\ Returned(0, 3)
    /\ Returned(2, 3)
    /\ rets[0][2].val.some

\* ------------------------------------------- claim vocabulary (continued)
WorkOps == {"work", "work_subset", "work_mul", "work_local"}

\* the number of collect calls rank r has entered
CollectCalls(r) == Cardinality({ i \in 1 .. Len(prog) : prog[i] = "collect" /\ Called(r, i) })

\* every collect entered so far found a pending LocalWork: a follower has sent
\* once per collect, root has never returned None
AllPending ==
    /\ \A r \in Ranks \ {0} : Len(Sends(log[r])) = CollectCalls(r)
    /\ \A i \in 1 .. Len(rets[0]) : rets[0][i].op = "collect" => rets[0][i].val.some

\* what the caller of the program holds as its share, and the output its work*
\* call at position i of the program stores, from the program text alone
ExpectedInput(r) ==
    IF prog[1] \in {"distribute", "get_subset"} THEN ExpectedChunk(r) ELSE data
ExpectedOutput(r, i) ==
    IF prog[i] = "work_mul"
    THEN [j \in 1 .. Len(ExpectedInput(r)) |-> SyncCount(i) * ExpectedInput(r)[j]]
    ELSE IF prog[i] = "work"
    THEN [j \in 1 .. Len(ExpectedInput(r)) |-> Apply(f, ExpectedInput(r)[j])]
    ELSE [j \in 1 .. Len(ExpectedChunk(r)) |-> Apply(f, ExpectedChunk(r)[j])]

RECURSIVE ConcatExpected(_, _)
ConcatExpected(k, i) ==
    IF k >= size THEN <<>> ELSE ExpectedOutput(k, i) \o ConcatExpected(k + 1, i)

\* C11: cycles do not overlap. While every rank repeats work -> collect with a
\* pending LocalWork at each collect, no rank returns from a collect before
\* root has received that cycle's output of every follower, and what root's
\* collect returns is made of the outputs of the work calls of that same cycle.
C11_CyclesDoNotOverlap ==
    [][ ( /\ AllPending
          /\ \E r \in Ranks : pc[r] = "coll_barrier" /\ pc'[r] = "idle" )
        => /\ pc[0] = "coll_barrier"
           /\ \A k \in Ranks \ {0} :
                 /\ ip[k] = ip[0]
                 /\ chan[<<k, 0>>] = <<>>
                 /\ Len(SelectSeq(log[0], LAMBDA e : e.k = "recv" /\ e.peer = k))
                       = CollectCalls(0)
           /\ (ip[0] > 1 /\ prog[ip[0] - 1] \in WorkOps)
                 => rets'[0][ip[0]]
                       = Ret("collect", Some(ConcatExpected(0, ip[0] - 1))) ]_vars

C11_Witness ==
    /\ prog[1] = "synchronize_value"
    /\ size = 3
    /\ Len(data) = 2
    /\ Returned(0, 6)
    /\ rets[0][3] = Ret("collect", Some(<<3, 5, 3, 5, 3, 5>>))
    /\ rets[0][6] = Ret("collect", Some(<<6, 10, 6, 10, 6, 10>>))
    /\ Returned(2, 6)

\* C12: positional map on a single rank. On a group of size 1, work(items, f)
\* followed by collect() returns Some(sequence) of the length of items with
\* sequence[i] = f(items[i]) for every i.
C12_PositionalMap ==
    \A i \in 1 .. (Len(prog) - 1) :
        ( /\ size = 1
          /\ prog[i] = "work"
          /\ prog[i + 1] = "collect"
          /\ Returned(0, i + 1) )
        => /\ rets[0][i + 1].op = "collect"
           /\ rets[0][i + 1].val.some
           /\ Len(rets[0][i + 1].val.val) = Len(data)
           /\ \A j \in 1 .. Len(data) :
                 rets[0][i + 1].val.val[j] = Apply(f, data[j])

C12_Witness ==
    /\ size = 1
    /\ prog = <<"work", "collect", "collect">>
    /\ f = "sq"
    /\ Len(data) = 5
    /\ Returned(0, 2)
    /\ rets[0][2].val.val = <<9, 25, 49, 81, 121>>

\* C13: work_subset end to end. For any n >= 0 and size >= 1, when every rank
\* calls work_subset(items, f) on the same dataset and then collect, each rank
\* maps its own chunk and root's collect returns Some(sequence) of length n
\* with sequence[i] = f(items[i]): no rank fails, and the run does not end
\* before root's collect has returned that value.
C13_WorkSubsetEndToEnd ==
    ( /\ SubSeq(prog, 1, 2) = <<"work_subset", "collect">>
      /\ \A r \in Ranks : ip[r] > 1 \/ pc[r] # "idle" )
    => /\ \A r \in Ranks : pc[r] # "panic"
       /\ \A r \in Ranks :
             (ip[r] = 2 /\ pc[r] = "idle") => work[r] = Some(ExpectedOutput(r, 1))
       /\ \/ Returned(0, 2) /\ rets[0][2] = Ret("collect", Some(ParMap(f, data)))
          \/ ~Returned(0, 2) /\ ENABLED Next

\* C14: single pending slot. A work or work_subset call replaces an unconsumed
\* LocalWork: after two work* calls with no collect in between, the slot holds
\* the output of the second call only, and that is what the next collect takes
\* and what root's result is made of; the slot never holds more than the
\* output of one call.
C14_SinglePendingSlot ==
    /\ \A r \in Ranks : Len(work[r].val) <= Len(data)
    /\ \A r \in Ranks : \A i \in 2 .. (Len(prog) - 1) :
          ( /\ prog[i - 1] \in WorkOps
            /\ prog[i] \in WorkOps
            /\ prog[i + 1] = "collect" )
          => /\ (ip[r] = i + 1 /\ pc[r] = "idle")
                   => work[r] = Some(ExpectedOutput(r, i))
             /\ Called(r, i + 1) => taken[r] = ExpectedOutput(r, i)
             /\ (r = 0 /\ Returned(0, i + 1))
                   => rets[0][i + 1] = Ret("collect", Some(ConcatExpected(0, i)))

C14_Witness ==
    /\ prog = <<"work", "work_subset", "collect">>
    /\ size = 3
    /\ Len(data) = 5
    /\ Returned(0, 3)
    /\ rets[0][3] = Ret("collect", Some(ParMap(f, data)))
    /\ taken[2] = ParMap(f, <<data[5]>>)

\* C15: distribute contract violations fail loudly. A distribute call with
\* items = None on root, or items = Some(..) on a non-root rank, panics on that
\* rank, for every size >= 1, before the rank sends, receives or enters the
\* barrier.
C15_ViolationsPanic ==
    \A r \in Ranks :
        ( /\ prog[1] = "distribute"
          /\ Called(r, 1)
          /\ IF r = 0 THEN ~arg[r].some ELSE arg[r].some )
        => /\ pc[r] = "panic"
           /\ log[r] = <<>>

\* C16: synchronize_value. When the ranks call synchronize_value, each
\* non-root rank leaves the call with the value root held before its call,
\* root leaves it with its value unchanged, and no step of the call changes a
\* LocalWork slot.
C16_SynchronizeValue ==
    [][ \A r \in Ranks :
          /\ (pc[r] \in {"sync_wait", "sync_recv"} /\ pc'[r] = "idle")
                => /\ value'[r] = SyncCount(ip[r])
                   /\ r = 0 => value'[r] = value[r]
                   /\ (pc[0] = "sync_wait" /\ ip[0] = ip[r]) => value'[r] = value[0]
                   /\ work' = work
          /\ (AtCall(r, "synchronize_value") /\ pc'[r] # "idle")
                => /\ r = 0 => value'[r] = SyncCount(ip[r])
                   /\ work' = work ]_vars

C16_Witness ==
    /\ prog[1] = "synchronize_value"
    /\ size = 3
    /\ \A r \in Ranks : ip[r] = 5 /\ pc[r] = "idle" /\ value[r] = 2
    /\ \A r \in Ranks : work[r] = None

InDistributeLoop == pc[0] \in {"dist_send", "dist_send_wait", "dist_barrier"}

\* the destinations of root's sends are followers, each addressed at most once
SendsToFollowersOnce ==
    /\ Len(Sends(log[0])) <= size - 1
    /\ \A j \in 1 .. Len(Sends(log[0])) : Sends(log[0])[j].peer \in 1 .. (size - 1)
    /\ \A j, k \in 1 .. Len(Sends(log[0])) :
          j # k => Sends(log[0])[j].peer # Sends(log[0])[k].peer

\* C18 as stated: on root with size > 1, the send loop of distribute addresses
\* only ranks in 1..size-1, each at most once, and the rank counter never
\* reaches size.
C18_RankCounterBelowSize ==
    (prog[1] = "distribute" /\ size > 1 /\ arg[0].some /\ Called(0, 1))
    => /\ pc[0] # "panic"
       /\ SendsToFollowersOnce
       /\ InDistributeLoop => rank < size

\* C18 (amended): on root with size > 1, the send loop of distribute addresses
\* only ranks in 1..size-1, each at most once; the rank counter never exceeds
\* size and is below size whenever a chunk is left to send.
C18_SendsInRange ==
    (prog[1] = "distribute" /\ size > 1 /\ arg[0].some /\ Called(0, 1))
    => /\ pc[0] # "panic"
       /\ SendsToFollowersOnce
       /\ InDistributeLoop => rank <= size
       /\ (pc[0] = "dist_send" /\ items # <<>>) => rank < size

C18_Witness ==
    /\ prog[1] = "distribute"
    /\ size = 3
    /\ Len(data) = 5
    /\ pc[0] = "dist_barrier"
    /\ rank = 3
    /\ Len(Sends(log[0])) = 2

\* C19: no message is left in flight across a collective. Whenever the barrier
\* at the end of distribute or of a collect with pending work completes, every
\* point-to-point message sent so far has been received.
C19_NothingInFlight ==
    [][ (\E r \in Ranks : InBarrier(r) /\ pc'[r] = "idle")
        => \A p \in AllRanks \X AllRanks : chan[p] = <<>> ]_vars

C19_Witness ==
    /\ prog = <<"maybe_work", "collect", "maybe_work", "collect">>
    /\ size = 3
    /\ Len(data) = 1
    /\ \A r \in Ranks : Returned(r, 4)
    /\ rets[0][2].val.some
    /\ rets[0][4].val.some
    /\ \A r \in Ranks : Len(Sends(log[r])) = (IF r = 0 THEN 0 ELSE 2)

\* C20: collect is deadlock-free for any mix of pending states. If every rank
\* calls collect once, whichever ranks have a pending LocalWork, each of the
\* calls returns: as long as one has not, a step is possible.
C20_CollectReturns ==
    ( /\ prog = <<"maybe_work", "collect">>
      /\ \A r \in Ranks : Called(r, 2) )
    => \/ \A r \in Ranks : Returned(r, 2)
       \/ ENABLED Next

====
